---- MODULE Spec2Model ----
(***************************************************************************)
(* Model of src/app.py: the Flask/SQLAlchemy chat backend.                 *)
(*                                                                         *)
(* State: the two SQLite tables (chat_message, user_profile), the wall     *)
(* clock that stamps rows, and for every request in flight its position in *)
(* the handler together with the handler's local variables (the ORM object *)
(* it loaded, the collaborator's raw text, the response dictionary).       *)
(* Every step is one visit to the database (a SELECT, or a flush+COMMIT),  *)
(* which is the granularity at which concurrent requests interleave.       *)
(***************************************************************************)
EXTENDS Integers, Sequences, FiniteSets, TLC

(***************************************************************************)
(* Bounds of the model.                                                    *)
(***************************************************************************)
MaxMsgId == 3        \* largest chat_message.id the model inserts
MaxProfileId == 2    \* largest user_profile.id the model inserts
MaxClock == 3        \* largest reading of the wall clock
MaxRequests == 2     \* number of requests the model receives

Sessions == {"s1", "s2"}
Procs == {1, 2}

(***************************************************************************)
(* Values.  Python None and an absent dictionary key are markers; every    *)
(* other string is text.                                                   *)
(***************************************************************************)
None == "<None>"
Absent == "<absent>"
NoSid == ""                      \* session_id missing (None or "", both falsy)

IsText(v) == v \notin {None, Absent}

Max(S) == CHOOSE x \in S : \A y \in S : y <= x

IsPrefix(h, g) == Len(h) <= Len(g) /\ \A i \in 1..Len(h) : h[i] = g[i]

(***************************************************************************)
(* AssistantResponse.response_type: the Literal of ten tags.               *)
(***************************************************************************)
ResponseTypes ==
    {"greeting", "gathering_info", "recommendations", "budget_breakdown",
     "license_guide", "supplier_guide", "profit_projection", "action_plan",
     "general_advice", "clarification"}

(***************************************************************************)
(* UserProfile columns.  Five of the nine updatable columns are modelled:   *)
(* four text columns without a default and conversation_stage, the one     *)
(* column with a default.                                                  *)
(***************************************************************************)
updatable_fields ==
    {"capital_available", "location_county", "location_type", "time_commitment",
     "conversation_stage"}

ColumnDefault(f) == IF f = "conversation_stage" THEN "discovery" ELSE None

\* UserProfile(session_id=...) : every attribute unset
NewProfileAttrs == [f \in updatable_fields |-> None]

\* The row an INSERT of a UserProfile writes: a column whose attribute is
\* None is left out of the statement, so its default (if any) fires.
InsertedColumns(attrs) ==
    [f \in updatable_fields |-> IF attrs[f] = None THEN ColumnDefault(f) ELSE attrs[f]]

\* the row of a profile created lazily and never updated
DefaultProfile == InsertedColumns(NewProfileAttrs)

(***************************************************************************)
(* Tables: functions from the primary keys in use to rows.                 *)
(***************************************************************************)
EmptyTable == [i \in {} |-> None]

\* INTEGER PRIMARY KEY without AUTOINCREMENT: largest key in use plus one
NextId(tbl) == IF DOMAIN tbl = {} THEN 1 ELSE Max(DOMAIN tbl) + 1

InsertRow(tbl, row) ==
    [i \in DOMAIN tbl \cup {NextId(tbl)} |-> IF i \in DOMAIN tbl THEN tbl[i] ELSE row]

\* a DELETE that has lost its filter
DeleteSessionUnfiltered(tbl, sid) ==
    [i \in {j \in DOMAIN tbl : FALSE} |-> tbl[i]]

\* Model.query.filter_by(session_id=sid).delete()
DeleteSession(tbl, sid) ==
    [i \in {j \in DOMAIN tbl : tbl[j].session_id # sid} |-> tbl[i]]

SessionIds(tbl, sid) == {i \in DOMAIN tbl : tbl[i].session_id = sid}

\* UserProfile.query.filter_by(session_id=sid).first() as an ORM object;
\* id 0 stands for None
NoProfile == [id |-> 0, attrs |-> NewProfileAttrs]

FirstProfile(tbl, sid) ==
    IF SessionIds(tbl, sid) = {} THEN NoProfile
    ELSE LET i == CHOOSE j \in SessionIds(tbl, sid) : TRUE
         IN [id |-> i, attrs |-> tbl[i].attrs]

\* ChatMessage.query.filter_by(session_id=sid).order_by(ChatMessage.timestamp).all():
\* every ordering of the session's rows by non-decreasing timestamp; the
\* statement names no second sort key, so rows with equal timestamps may come
\* in any order.
OrderedByTimestamp(tbl, sid) ==
    LET ids == SessionIds(tbl, sid)
        n == Cardinality(ids)
    IN {h \in [1..n -> ids] :
          \A i, j \in 1..n :
              i < j => /\ h[i] # h[j]
                       /\ tbl[h[i]].timestamp <= tbl[h[j]].timestamp}

\* datetime.utcnow() read at or after the reading `now`
ClockReadings(now) == {t \in {now, now + 1} : t <= MaxClock}

(***************************************************************************)
(* The collaborator's answer and the response dictionary built from it.    *)
(*                                                                         *)
(* A raw answer is response.choices[0].message.content: kind "none" is a   *)
(* content of None, "text" is text that is not JSON, "json_other" is JSON  *)
(* whose top-level value is not an object (a list, a string, a number,     *)
(* null) and "object" is a JSON object, whose keys are in obj.             *)
(***************************************************************************)
NoBudget == [tag |-> "absent", items |-> <<>>]
NullBudget == [tag |-> "null", items |-> <<>>]
BudgetList(items) == [tag |-> "list", items |-> items]

GoodItem == [item |-> "stock", cost_low |-> "5000"]
BadItem == [item |-> "rent", cost_low |-> Absent]      \* cost_low missing

Dict(m, t, b) == [message |-> m, response_type |-> t, budget_items |-> b]

RawObject(text, d) == [kind |-> "object", text |-> text, obj |-> d]
RawOther(kind, text) == [kind |-> kind, text |-> text, obj |-> Dict(Absent, Absent, NoBudget)]

RawOutputs ==
    { RawOther("none", None),
      RawOther("text", ""),
      RawOther("text", "plain words"),
      RawOther("json_other", "[1, 2]"),
      RawObject("{m,greeting}", Dict("hello", "greeting", NoBudget)),
      RawObject("{m}", Dict("hello", Absent, NoBudget)),
      RawObject("{m,bogus}", Dict("hello", "bogus", NoBudget)),
      RawObject("{empty,greeting}", Dict("", "greeting", NoBudget)),
      RawObject("{greeting}", Dict(Absent, "greeting", NoBudget)),
      RawObject("{null,greeting}", Dict(None, "greeting", NoBudget)),
      RawObject("{m,budget,[ok]}",
                Dict("costs", "budget_breakdown", BudgetList(<<GoodItem>>))),
      RawObject("{m,budget,[ok,bad]}",
                Dict("costs", "budget_breakdown", BudgetList(<<GoodItem, BadItem>>))) }

\* BudgetItem(**item) validates: cost_low is a required field
BudgetItemValid(it) == it.cost_low # Absent

\* AssistantResponse(**d) validates: message is a required str, response_type
\* one of the ten literals, budget_items None or a list of valid BudgetItems
AssistantResponseValid(d) ==
    /\ IsText(d.message)
    /\ d.response_type \in ResponseTypes
    /\ \A i \in 1..Len(d.budget_items.items) : BudgetItemValid(d.budget_items.items[i])

\* validated_response.model_dump(): an optional field that was not given is
\* dumped as None
model_dump(d) ==
    [d EXCEPT !.budget_items = IF @.tag = "absent" THEN NullBudget ELSE @]

\* the except branch of the validation: the dictionary is kept as parsed, and
\* only a missing message key is filled with the raw text
Unvalidated(d, response_text) ==
    IF d.message = Absent THEN [d EXCEPT !.message = response_text] ELSE d

\* a fallback that gives the raw text no response_type
ParseFallbackUntagged(text) == Dict(text, Absent, NoBudget)

\* Lines 459-464: the dictionary built when json.loads raises JSONDecodeError
ParseFallback(text) == Dict(text, "general_advice", NoBudget)

\* Lines 454-474: the response dictionary, or raised = TRUE when an exception
\* leaves the block (json.loads(None) is a TypeError, which the handler for
\* JSONDecodeError does not catch; a parsed value that is not a dict makes
\* the statements of the validation's except branch raise in their turn).
ResponseDict(raw) ==
    LET parsed == IF raw.kind = "text"
                  THEN ParseFallback(raw.text)
                  ELSE raw.obj
    IN IF raw.kind \in {"none", "json_other"}
       THEN [raised |-> TRUE, d |-> parsed]
       ELSE [raised |-> FALSE,
             d |-> IF AssistantResponseValid(parsed)
                   THEN model_dump(parsed)
                   ELSE Unvalidated(parsed, raw.text)]

\* ChatMessage.content is nullable=False
ContentStorable(d) == d.message # None

(***************************************************************************)
(* Requests.                                                               *)
(***************************************************************************)
NoDict == Dict(Absent, Absent, NoBudget)      \* no structured data / no response
NoData == [f \in {} |-> None]

\* JSON bodies of POST /api/profile
Payloads ==
    { "capital_available" :> "20000",
      "capital_available" :> "50000",
      "location_county" :> "Nakuru",
      "conversation_stage" :> "planning" }

\* bodies with a key that update_profile does not know, and with values that
\* are not among those the comments of lines 375-376 name
OddPayloads ==
    { ("capital_available" :> "20000") @@ ("favourite_colour" :> "blue"),
      "location_type" :> "suburban",
      "time_commitment" :> "weekends" }

\* the "message" of a body of POST /api/query: a text, null, or no such key
MessageInputs == {"I have 20000 KES", " Which licence do I need? ", "", "   ", None, Absent}

\* str.strip()
strip(text) ==
    CASE text = " Which licence do I need? " -> "Which licence do I need?"
      [] text = "   " -> ""
      [] OTHER -> text

\* data.get("message", "").strip(); None has no strip (AttributeError)
user_message(m) == IF m = Absent THEN "" ELSE strip(m)

\* the message that the client served by slot p sends
MessageOf(p) == IF p = 1 THEN "I have 20000 KES" ELSE " Which licence do I need? "

\* response_text before line 455 has run
NoRaw == RawOther("unset", Absent)

NoArg == [op |-> "none", session_id |-> NoSid, message |-> "", data |-> NoData]

NoLoc == [user_id |-> 0, stamped |-> 0, wiped |-> FALSE, profile |-> NoProfile, expired |-> FALSE, history |-> <<>>,
          response_text |-> NoRaw, response_dict |-> NoDict]

NoBody == [profile |-> [present |-> FALSE, attrs |-> NewProfileAttrs],
           messages |-> <<>>, response |-> NoDict, text |-> <<>>]

NoRes == [status |-> 0, error |-> ""] @@ NoBody

Reply(status, error) == [status |-> status, error |-> error] @@ NoBody

VARIABLES
    messages,     \* table chat_message: id -> row
    profiles,     \* table user_profile: id -> row
    clock,        \* last reading of datetime.utcnow()
    pc,           \* per request slot: position in its handler
    arg,          \* per request slot: the request (route and JSON body)
    loc,          \* per request slot: local variables of the handler (and, as
                  \* history, the id and the timestamp of the user row it stored
                  \* and whether a reset of its session has run since)
    res,          \* per request slot: the HTTP response
    appended,     \* history: per session, ids of the rows committed since its last reset
    pristine,     \* history: per session, reset and not written since
    arrived       \* history: number of requests received (and, where answered
                  \* requests are released, not yet released)

vars == <<messages, profiles, clock, pc, arg, loc, res, appended, pristine, arrived>>

Init ==
    /\ messages = EmptyTable
    /\ profiles = EmptyTable
    /\ clock = 1
    /\ pc = [p \in Procs |-> "idle"]
    /\ arg = [p \in Procs |-> NoArg]
    /\ loc = [p \in Procs |-> NoLoc]
    /\ res = [p \in Procs |-> NoRes]
    /\ appended = [s \in Sessions |-> <<>>]
    /\ pristine = [s \in Sessions |-> FALSE]
    /\ arrived = 0

InFlight(q) == pc[q] \notin {"idle", "done"}

\* request p arrives while the requests in flight are being handled; it
\* is given the first free slot
Arrive(p, a) ==
    /\ pc[p] = "idle"
    /\ \A q \in Procs : q < p => pc[q] # "idle"
    /\ arrived < MaxRequests
    /\ arrived' = arrived + 1
    /\ arg' = [arg EXCEPT ![p] = a]

Respond(p, r) ==
    /\ pc' = [pc EXCEPT ![p] = "done"]
    /\ res' = [res EXCEPT ![p] = r]

Goto(p, label) ==
    /\ pc' = [pc EXCEPT ![p] = label]
    /\ UNCHANGED res

Touch(sid) == pristine' = [pristine EXCEPT ![sid] = FALSE]

\* db.session.add(ChatMessage(...)); db.session.commit()
AppendMessage(sid, role, content, sd, t) ==
    /\ NextId(messages) <= MaxMsgId
    /\ messages' = InsertRow(messages,
                             [session_id |-> sid, role |-> role, content |-> content,
                              structured_data |-> sd, timestamp |-> t])
    /\ clock' = t
    /\ appended' = [appended EXCEPT ![sid] = Append(@, NextId(messages))]
    /\ Touch(sid)

(***************************************************************************)
(* POST /api/query : query_openai                                          *)
(***************************************************************************)
QueryArg(sid, text) == [op |-> "query", session_id |-> sid, message |-> text, data |-> NoData]

\* Lines 397-410: reject an empty message or session_id, else store the user
\* message and commit.  A message of null raises in line 399, which lines
\* 495-498 turn into a 500.
QueryBeginOn(p, sids, inputs) ==
    \E sid \in sids, m \in inputs :
      LET text == user_message(m) IN
        /\ Arrive(p, QueryArg(sid, m))
        /\ IF m = None
           THEN /\ Respond(p, Reply(500, "AttributeError"))
                /\ UNCHANGED <<messages, profiles, clock, loc, appended, pristine>>
           ELSE IF text = "" \/ sid = NoSid
           THEN /\ Respond(p, Reply(400, "Missing message or session_id"))
                /\ UNCHANGED <<messages, profiles, clock, loc, appended, pristine>>
           ELSE /\ \E t \in ClockReadings(clock) :
                       AppendMessage(sid, "user", text, NoDict, t)
                /\ loc' = [loc EXCEPT ![p].user_id = NextId(messages),
                                      ![p].stamped = clock']
                /\ Goto(p, "q_profile")
                /\ UNCHANGED profiles

QueryBegin(p) == QueryBeginOn(p, Sessions, {MessageOf(p)})

\* Line 413: profile = UserProfile.query.filter_by(session_id=session_id).first()
QueryProfile(p) ==
    /\ pc[p] = "q_profile"
    /\ LET profile == FirstProfile(profiles, arg[p].session_id)
       IN /\ loc' = [loc EXCEPT ![p].profile = profile]
          /\ Goto(p, IF profile.id = 0 THEN "q_create" ELSE "q_history")
    /\ UNCHANGED <<messages, profiles, clock, arg, appended, arrived, pristine>>

\* a user_profile table without the unique index on session_id
CanInsertProfileNoIndex(sid) == TRUE

\* the INSERT of a new user_profile row: session_id is unique
CanInsertProfile(sid) == SessionIds(profiles, sid) = {}

\* Lines 414-417: add the new profile and commit.  The commit expires the
\* object; the unique index on session_id refuses a second row.
QueryCreate(p) ==
    /\ pc[p] = "q_create"
    /\ IF CanInsertProfile(arg[p].session_id)
       THEN /\ NextId(profiles) <= MaxProfileId
            /\ profiles' = InsertRow(profiles,
                                     [session_id |-> arg[p].session_id,
                                      attrs |-> InsertedColumns(NewProfileAttrs)])
            /\ loc' = [loc EXCEPT ![p].profile = [id |-> NextId(profiles),
                                                  attrs |-> NewProfileAttrs],
                                  ![p].expired = TRUE]
            /\ Touch(arg[p].session_id)
            /\ Goto(p, "q_history")
       ELSE /\ Respond(p, Reply(500, "IntegrityError"))
            /\ UNCHANGED <<profiles, loc, pristine>>
    /\ UNCHANGED <<messages, clock, arg, appended, arrived>>

\* entries that also carry the time of the message
PromptEntriesStamped(tbl, h) ==
    [i \in 1..Len(h) |-> [role |-> tbl[h[i]].role, content |-> tbl[h[i]].content,
                          timestamp |-> tbl[h[i]].timestamp]]

\* {"role": msg.role, "content": msg.content} for msg in history
PromptEntries(tbl, h) ==
    [i \in 1..Len(h) |-> [role |-> tbl[h[i]].role, content |-> tbl[h[i]].content]]

\* Lines 423-433: the profile context; `x or 'Unknown'` for the optional
\* columns, conversation_stage as it is
profile_context(attrs) ==
    [f \in updatable_fields |->
        IF f # "conversation_stage" /\ attrs[f] \in {None, ""} THEN "Unknown" ELSE attrs[f]]

\* Lines 435-443: messages = [system_with_context] + [the entries of history];
\* the static SYSTEM_MESSAGE is left out of the system entry's content
PromptMessages(profile, history) ==
    <<[role |-> "system", content |-> profile_context(profile.attrs)]>> \o history

\* Line 420: history = ChatMessage.query...order_by(ChatMessage.timestamp).all()
QueryHistory(p) ==
    /\ pc[p] = "q_history"
    /\ \E h \in OrderedByTimestamp(messages, arg[p].session_id) :
           loc' = [loc EXCEPT ![p].history = PromptEntries(messages, h)]
    /\ Goto(p, IF loc[p].expired THEN "q_context" ELSE "q_call")
    /\ UNCHANGED <<messages, profiles, clock, arg, appended, arrived, pristine>>

\* Reading an attribute of an expired object reloads it by primary key;
\* ObjectDeletedError when no row has that key any more.
Refreshable(profile) == profile.id \in DOMAIN profiles

Refresh(profile) == [id |-> profile.id, attrs |-> profiles[profile.id].attrs]

\* Lines 423-433: the profile context reads the attributes of the profile,
\* which reloads a profile this request has just created.
QueryContext(p) ==
    /\ pc[p] = "q_context"
    /\ IF Refreshable(loc[p].profile)
       THEN /\ loc' = [loc EXCEPT ![p].profile = Refresh(loc[p].profile),
                                  ![p].expired = FALSE]
            /\ Goto(p, "q_call")
       ELSE /\ Respond(p, Reply(500, "ObjectDeletedError"))
            /\ UNCHANGED loc
    /\ UNCHANGED <<messages, profiles, clock, arg, appended, arrived, pristine>>

\* a failure of the collaborator that also rolls back the user message
QueryCallFailsRollsBack(p) ==
    /\ pc[p] = "q_call"
    /\ Respond(p, Reply(500, "APIError"))
    /\ messages' = [i \in DOMAIN messages \ {loc[p].user_id} |-> messages[i]]
    /\ appended' = [s \in Sessions |->
                       SelectSeq(appended[s], LAMBDA i : i # loc[p].user_id)]
    /\ UNCHANGED <<profiles, clock, arg, loc, pristine, arrived>>

\* Lines 446-452 raise: the collaborator timed out, was unreachable or
\* answered with an error status.  Lines 495-498 turn it into a 500.
QueryCallFails(p) ==
    /\ pc[p] = "q_call"
    /\ Respond(p, Reply(500, "APIError"))
    /\ UNCHANGED <<messages, profiles, clock, arg, loc, appended, arrived, pristine>>

\* Lines 446-483: the collaborator answers; build the response dictionary,
\* store the assistant message and commit (which expires the profile).  The
\* call to the collaborator takes longer than a tick of the clock, so the
\* assistant message is stamped later than the turn's user message.
QueryAnswer(p, outputs) ==
    /\ pc[p] = "q_call"
    /\ \E raw \in outputs :
         LET r == ResponseDict(raw)
         IN IF r.raised
            THEN /\ Respond(p, Reply(500, "TypeError"))
                 /\ loc' = [loc EXCEPT ![p].response_text = raw]
                 /\ UNCHANGED <<messages, clock, appended, pristine>>
            ELSE IF ~ContentStorable(r.d)
            THEN /\ Respond(p, Reply(500, "IntegrityError"))
                 /\ loc' = [loc EXCEPT ![p].response_text = raw,
                                       ![p].response_dict = r.d]
                 /\ UNCHANGED <<messages, clock, appended, pristine>>
            ELSE /\ \E t \in ClockReadings(clock) :
                        /\ t > loc[p].stamped
                        /\ AppendMessage(arg[p].session_id, "assistant", r.d.message, r.d, t)
                 /\ loc' = [loc EXCEPT ![p].response_text = raw,
                                       ![p].response_dict = r.d,
                                       ![p].expired = TRUE]
                 /\ Goto(p, "q_return")
    /\ UNCHANGED <<profiles, arg, arrived>>

\* the answers the collaborator gives when requests run concurrently
CoreOutputs == { RawObject("{m,greeting}", Dict("hello", "greeting", NoBudget)) }

QueryCallReturns(p) == QueryAnswer(p, CoreOutputs)

\* Lines 485-493: the JSON answer reads profile.conversation_stage and the
\* other attributes of the (expired) profile.
QueryReturn(p) ==
    /\ pc[p] = "q_return"
    /\ IF Refreshable(loc[p].profile)
       THEN Respond(p, [Reply(200, "") EXCEPT
                            !.response = loc[p].response_dict,
                            !.profile = [present |-> TRUE,
                                         attrs |-> Refresh(loc[p].profile).attrs]])
       ELSE Respond(p, Reply(500, "ObjectDeletedError"))
    /\ UNCHANGED <<messages, profiles, clock, arg, loc, appended, arrived, pristine>>

(***************************************************************************)
(* POST /api/profile : update_profile                                      *)
(***************************************************************************)
UpdateArg(sid, data) == [op |-> "update", session_id |-> sid, message |-> "", data |-> data]

\* Lines 548-550: setattr(profile, field, data[field]) for the fields in data
SetFields(attrs, data) ==
    [f \in updatable_fields |-> IF f \in DOMAIN data THEN data[f] ELSE attrs[f]]

\* The columns of the UPDATE the flush emits: the attributes whose value
\* differs from the one loaded.
DirtyFields(attrs, data) ==
    {f \in updatable_fields \cap DOMAIN data : data[f] # attrs[f]}

\* an UPDATE that writes every column, None for the fields not in the body
UpdateRowResetsOthers(tbl, id, attrs, data) ==
    [tbl EXCEPT ![id].attrs =
        [f \in updatable_fields |-> IF f \in DOMAIN data THEN data[f] ELSE None]]

\* UPDATE user_profile SET <dirty columns> WHERE id = <the loaded id>
UpdateRow(tbl, id, attrs, data) ==
    [tbl EXCEPT ![id].attrs =
        [f \in updatable_fields |->
            IF f \in DirtyFields(attrs, data) THEN data[f] ELSE @[f]]]

\* Lines 531-539: reject a missing session_id, else read the profile row
\* (a new UserProfile is only added to the session, not yet written).
UpdateBeginOn(p, sids, bodies) ==
    \E sid \in sids, data \in bodies :
        /\ Arrive(p, UpdateArg(sid, data))
        /\ IF sid = NoSid
           THEN /\ Respond(p, Reply(400, "Missing session_id"))
                /\ UNCHANGED loc
           ELSE /\ loc' = [loc EXCEPT ![p].profile = FirstProfile(profiles, sid)]
                /\ Goto(p, "u_commit")
        /\ UNCHANGED <<messages, profiles, clock, appended, pristine>>

UpdateBegin(p) == UpdateBeginOn(p, Sessions, Payloads)

\* Lines 548-553: set the fields and commit.  The flush writes an INSERT for
\* a new object and an UPDATE of the changed columns for a loaded one;
\* StaleDataError when the UPDATE matches no row.
UpdateCommit(p) ==
    /\ pc[p] = "u_commit"
    /\ LET sid == arg[p].session_id
           data == arg[p].data
           profile == loc[p].profile
       IN IF profile.id = 0
          THEN IF CanInsertProfile(sid)
               THEN /\ NextId(profiles) <= MaxProfileId
                    /\ profiles' = InsertRow(profiles,
                           [session_id |-> sid,
                            attrs |-> InsertedColumns(SetFields(NewProfileAttrs, data))])
                    /\ Touch(sid)
                    /\ Respond(p, Reply(200, ""))
               ELSE /\ Respond(p, Reply(500, "IntegrityError"))
                    /\ UNCHANGED <<profiles, pristine>>
          ELSE IF DirtyFields(profile.attrs, data) = {}
               THEN /\ Respond(p, Reply(200, ""))
                    /\ UNCHANGED <<profiles, pristine>>
               ELSE IF profile.id \in DOMAIN profiles
                    THEN /\ profiles' = UpdateRow(profiles, profile.id, profile.attrs, data)
                         /\ Touch(sid)
                         /\ Respond(p, Reply(200, ""))
                    ELSE /\ Respond(p, Reply(500, "StaleDataError"))
                         /\ UNCHANGED <<profiles, pristine>>
    /\ UNCHANGED <<messages, clock, arg, loc, appended, arrived>>

(***************************************************************************)
(* POST /api/reset : reset_session                                         *)
(***************************************************************************)
ResetArg(sid) == [op |-> "reset", session_id |-> sid, message |-> "", data |-> NoData]

\* Lines 565-573: both DELETEs run in one transaction.
ResetSessionOn(p, sids) ==
    \E sid \in sids :
        /\ Arrive(p, ResetArg(sid))
        /\ IF sid = NoSid
           THEN /\ Respond(p, Reply(400, "Missing session_id"))
                /\ UNCHANGED <<messages, profiles, loc, appended, pristine>>
           ELSE /\ messages' = DeleteSession(messages, sid)
                /\ profiles' = DeleteSession(profiles, sid)
                /\ appended' = [appended EXCEPT ![sid] = <<>>]
                /\ pristine' = [pristine EXCEPT ![sid] = TRUE]
                /\ loc' = [q \in Procs |->
                              IF InFlight(q) /\ arg[q].session_id = sid
                              THEN [loc[q] EXCEPT !.wiped = TRUE] ELSE loc[q]]
                /\ Respond(p, Reply(200, ""))
        /\ UNCHANGED clock

ResetSession(p) == ResetSessionOn(p, Sessions)

(***************************************************************************)
(* GET /api/profile : get_profile                                          *)
(***************************************************************************)
ReadArg(op, sid) == [op |-> op, session_id |-> sid, message |-> "", data |-> NoData]

\* Lines 508-524: the body is {"profile": None} when the session has no row
ProfileBody(tbl, sid) ==
    [present |-> FirstProfile(tbl, sid).id # 0, attrs |-> FirstProfile(tbl, sid).attrs]

GetProfileOn(p, sids) ==
    \E sid \in sids :
        /\ Arrive(p, ReadArg("get_profile", sid))
        /\ IF sid = NoSid
           THEN Respond(p, Reply(400, "Missing session_id"))
           ELSE Respond(p, [Reply(200, "") EXCEPT !.profile = ProfileBody(profiles, sid)])
        /\ UNCHANGED <<messages, profiles, clock, loc, appended, pristine>>

GetProfile(p) == GetProfileOn(p, Sessions)

(***************************************************************************)
(* GET /api/history : get_history                                          *)
(***************************************************************************)
\* Lines 590-599: one entry per row, in the order the query returned them
Formatted(tbl, h) ==
    [i \in 1..Len(h) |-> [timestamp |-> tbl[h[i]].timestamp,
                          role |-> tbl[h[i]].role,
                          content |-> tbl[h[i]].content,
                          structured_data |-> tbl[h[i]].structured_data]]

GetHistoryOn(p, sids) ==
    \E sid \in sids :
        /\ Arrive(p, ReadArg("history", sid))
        /\ IF sid = NoSid
           THEN Respond(p, Reply(400, "Missing session_id"))
           ELSE \E h \in OrderedByTimestamp(messages, sid) :
                    Respond(p, [Reply(200, "") EXCEPT !.messages = Formatted(messages, h)])
        /\ UNCHANGED <<messages, profiles, clock, loc, appended, pristine>>

GetHistory(p) == GetHistoryOn(p, Sessions)

(***************************************************************************)
(* POST /api/export : export_session                                       *)
(***************************************************************************)
TicksPerMinute == 2

\* strftime('%H:%M'): the minute a clock reading falls in
Minute(t) == t \div TicksPerMinute

\* Lines 617-638: the lines of the export, as the values they are built from
ExportLines(tbl, h, profile, now) ==
    << [generated |-> Minute(now),
        profile |-> profile.id # 0,
        capital |-> IF profile.attrs["capital_available"] = None
                    THEN "Not specified" ELSE profile.attrs["capital_available"],
        location |-> IF profile.attrs["location_county"] = None
                     THEN "Not specified" ELSE profile.attrs["location_county"]] >>
    \o [i \in 1..Len(h) |->
          [prefix |-> IF tbl[h[i]].role = "user" THEN "YOU" ELSE "BIASHARA BUDDY",
           time |-> Minute(tbl[h[i]].timestamp),
           content |-> tbl[h[i]].content]]

ExportSessionOn(p, sids) ==
    \E sid \in sids :
        /\ Arrive(p, ReadArg("export", sid))
        /\ IF sid = NoSid
           THEN Respond(p, Reply(400, "Missing session_id"))
           ELSE IF SessionIds(messages, sid) = {}
           THEN Respond(p, Reply(404, "No messages found"))
           ELSE \E h \in OrderedByTimestamp(messages, sid), now \in ClockReadings(clock) :
                    Respond(p, [Reply(200, "") EXCEPT !.text =
                        ExportLines(messages, h, FirstProfile(profiles, sid), now)])
        /\ UNCHANGED <<messages, profiles, clock, loc, appended, pristine>>

ExportSession(p) == ExportSessionOn(p, Sessions)

(***************************************************************************)
(* The response has been sent; the slot is free for the next request.      *)
(***************************************************************************)
Finish(p) ==
    /\ pc[p] = "done"
    /\ pc' = [pc EXCEPT ![p] = "idle"]
    /\ arg' = [arg EXCEPT ![p] = NoArg]
    /\ loc' = [loc EXCEPT ![p] = NoLoc]
    /\ res' = [res EXCEPT ![p] = NoRes]
    /\ UNCHANGED <<messages, profiles, clock, appended, pristine, arrived>>

Next ==
    \E p \in Procs :
        \/ QueryBegin(p)
        \/ QueryProfile(p)
        \/ QueryCreate(p)
        \/ QueryHistory(p)
        \/ QueryContext(p)
        \/ QueryCallFails(p)
        \/ QueryCallReturns(p)
        \/ QueryReturn(p)
        \/ UpdateBegin(p)
        \/ UpdateCommit(p)
        \/ ResetSession(p)
        \/ GetProfile(p)
        \/ GetHistory(p)
        \/ ExportSession(p)
        \/ Finish(p)

Spec == Init /\ [][Next]_vars

(***************************************************************************)
(* One client that sends its requests one after the other, with or without *)
(* a session_id and a message, and a collaborator that may answer with any *)
(* of RawOutputs.                                                          *)
(***************************************************************************)
AnySid == Sessions \cup {NoSid}

ClientQuery == QueryBeginOn(1, AnySid, MessageInputs)
ClientAnswer == QueryAnswer(1, RawOutputs)
ClientUpdate == UpdateBeginOn(1, AnySid, Payloads \cup OddPayloads)
ClientReset == ResetSessionOn(1, AnySid)
ClientGetProfile == GetProfileOn(1, AnySid)
ClientGetHistory == GetHistoryOn(1, AnySid)
ClientExport == ExportSessionOn(1, AnySid)

NextTurn ==
    \/ ClientQuery
    \/ QueryProfile(1)
    \/ QueryCreate(1)
    \/ QueryHistory(1)
    \/ QueryContext(1)
    \/ QueryCallFails(1)
    \/ ClientAnswer
    \/ QueryReturn(1)
    \/ ClientUpdate
    \/ UpdateCommit(1)
    \/ ClientReset
    \/ ClientGetProfile
    \/ ClientGetHistory
    \/ ClientExport
    \/ Finish(1)

SpecTurn == Init /\ [][NextTurn]_vars

(***************************************************************************)
(* The profile routes under a steady stream of requests: a request that    *)
(* has been answered leaves the count of requests, so that any number of   *)
(* updates and resets follow one another while others are in flight.       *)
(***************************************************************************)
Release(p) ==
    /\ pc[p] = "done"
    /\ pc' = [pc EXCEPT ![p] = "idle"]
    /\ arg' = [arg EXCEPT ![p] = NoArg]
    /\ loc' = [loc EXCEPT ![p] = NoLoc]
    /\ res' = [res EXCEPT ![p] = NoRes]
    /\ arrived' = arrived - 1
    /\ UNCHANGED <<messages, profiles, clock, appended, pristine>>

\* the bodies that set capital_available
CapitalPayloads == {data \in Payloads : DOMAIN data = {"capital_available"}}

StoreUpdate(p) == UpdateBeginOn(p, Sessions, CapitalPayloads)

NextStore ==
    \E p \in Procs :
        \/ StoreUpdate(p)
        \/ UpdateCommit(p)
        \/ ResetSession(p)
        \/ Release(p)

SpecStore == Init /\ [][NextStore]_vars

(***************************************************************************)
(* Properties.                                                             *)
(***************************************************************************)
\* request p receives its response in this step
Returns(p) == pc[p] # "done" /\ pc'[p] = "done"

\* request p is handled in this one step (the routes that visit the
\* database once)
Serves(p, op) == pc[p] = "idle" /\ pc'[p] = "done" /\ arg'[p].op = op

Completed(p, op) == pc[p] = "done" /\ arg[p].op = op

\* C1: in every state, whatever fetch-history(s) can return is exactly the
\* messages appended to s since its last reset, in the order in which they
\* were appended, also when two of them carry the same timestamp.
C1_HistoryInAppendOrder ==
    \A sid \in Sessions :
        \A h \in OrderedByTimestamp(messages, sid) :
            Formatted(messages, h) = Formatted(messages, appended[sid])

\* the profile row of sid has the values of data in the fields of data
Holds(tbl, sid, data) ==
    /\ SessionIds(tbl, sid) # {}
    /\ \A f \in DOMAIN data : FirstProfile(tbl, sid).attrs[f] = data[f]

\* C2: when the only two requests received are profile updates of one
\* session that set disjoint fields, then however their steps interleave,
\* both succeed and the stored profile holds the fields of both.
C2_ConcurrentUpdatesCompose ==
    \A p, q \in Procs :
        ( /\ p # q
          /\ Completed(p, "update") /\ Completed(q, "update")
          /\ arg[p].session_id = arg[q].session_id
          /\ arg[p].session_id # NoSid
          /\ DOMAIN arg[p].data \cap DOMAIN arg[q].data = {}
          /\ arrived = 2 )
        => /\ res[p].status = 200
           /\ res[q].status = 200
           /\ Holds(profiles, arg[p].session_id, arg[p].data)
           /\ Holds(profiles, arg[p].session_id, arg[q].data)

\* update p commits with success in this step, on the row as it read it
MergeCommits(p) ==
    /\ pc[p] = "u_commit"
    /\ pc'[p] = "done"
    /\ res'[p].status = 200
    /\ loc[p].profile = FirstProfile(profiles, arg[p].session_id)

\* the value of field f when update p began
ValueBefore(p, f) ==
    IF loc[p].profile.id = 0 THEN DefaultProfile[f] ELSE loc[p].profile.attrs[f]

\* C3: an update that commits on the profile as it read it (no other write
\* to the session's row in between) leaves every field named in the payload
\* at the payload's value and every other field at the value it had before
\* the call (for a session without a row: the values of a fresh profile).
C3_PartialOverwrite ==
    [][\A p \in Procs :
          MergeCommits(p)
              => /\ SessionIds(profiles', arg[p].session_id) # {}
                 /\ \A f \in updatable_fields :
                        FirstProfile(profiles', arg[p].session_id).attrs[f]
                            = IF f \in DOMAIN arg[p].data
                              THEN arg[p].data[f]
                              ELSE ValueBefore(p, f)]_vars

\* a second update has set location_county and kept the capital_available
\* that a first update had set
C3_Witness ==
    \E p \in Procs :
        /\ Completed(p, "update")
        /\ res[p].status = 200
        /\ arg[p].data = ("location_county" :> "Nakuru")
        /\ loc[p].profile.id # 0
        /\ loc[p].profile.attrs["capital_available"] = "20000"
        /\ Holds(profiles, arg[p].session_id,
                 ("capital_available" :> "20000") @@ ("location_county" :> "Nakuru"))

\* C4: the profile store never holds two rows of one session.
C4_OneProfilePerSession ==
    \A sid \in Sessions : Cardinality(SessionIds(profiles, sid)) <= 1

\* a request lost the race to create the row of its session: the second
\* INSERT was refused and the session has its one row
C4_Witness ==
    \E p \in Procs :
        /\ pc[p] = "done"
        /\ res[p].error = "IntegrityError"
        /\ Cardinality(SessionIds(profiles, arg[p].session_id)) = 1

\* the collaborator call of turn p fails in this step
GenerationFails(p) == pc[p] = "q_call" /\ Returns(p) /\ res'[p].error = "APIError"

\* the user message that turn p stored is in the table
UserMessageStands(p, tbl) ==
    /\ loc[p].user_id \in SessionIds(tbl, arg[p].session_id)
    /\ tbl[loc[p].user_id].role = "user"
    /\ tbl[loc[p].user_id].content = user_message(arg[p].message)

\* C5: when the collaborator call fails, the turn answers with a failure
\* and stores no assistant message, and the user message it stored stays
\* (it is in the table unless a reset of the session ran during the turn).
C5_FailedGenerationAppendsNothing ==
    [][\A p \in Procs :
          GenerationFails(p)
              => /\ res'[p].status = 500
                 /\ messages' = messages
                 /\ (~loc[p].wiped => UserMessageStands(p, messages'))]_vars

\* a turn has failed at the collaborator; its user message is stored and
\* its session has no assistant message
C5_Witness ==
    \E p \in Procs :
        /\ Completed(p, "query")
        /\ res[p].error = "APIError"
        /\ res[p].status = 500
        /\ UserMessageStands(p, messages)
        /\ \A i \in SessionIds(messages, arg[p].session_id) : messages[i].role = "user"

\* C6: once reset(s) has completed and nothing has written to s since,
\* fetch-history(s) returns the empty sequence and profile get(s) returns a
\* fresh default profile.
C6_ResetThenRead ==
    [][\A p \in Procs :
          ( /\ Serves(p, "history") \/ Serves(p, "get_profile")
            /\ res'[p].status = 200
            /\ pristine[arg'[p].session_id] )
          => /\ arg'[p].op = "history" => res'[p].messages = <<>>
             /\ arg'[p].op = "get_profile"
                    => res'[p].profile = [present |-> TRUE, attrs |-> DefaultProfile]]_vars

\* the session has no message and no profile row
Unused(sid) == SessionIds(messages, sid) = {} /\ SessionIds(profiles, sid) = {}

\* C7: reset(s) always succeeds; it leaves no row of s, so that a second
\* reset finds nothing to delete, and on a session without rows it leaves
\* both tables as they were.
C7_ResetIdempotent ==
    [][\A p \in Procs :
          (Serves(p, "reset") /\ arg'[p].session_id # NoSid)
          => /\ res'[p].status = 200
             /\ DeleteSession(messages', arg'[p].session_id) = messages'
             /\ DeleteSession(profiles', arg'[p].session_id) = profiles'
             /\ Unused(arg'[p].session_id) => messages' = messages /\ profiles' = profiles]_vars

\* two resets of one session have both succeeded, the second on a session
\* that had just been reset, while the other session keeps its rows
C7_Witness ==
    \E p, q \in Procs :
        /\ p # q
        /\ Completed(p, "reset") /\ Completed(q, "reset")
        /\ arg[p].session_id = arg[q].session_id
        /\ arg[p].session_id # NoSid
        /\ res[p].status = 200 /\ res[q].status = 200
        /\ pristine[arg[p].session_id]

\* this step is a reset of session sid
Resets(sid) == \E p \in Procs : Serves(p, "reset") /\ arg'[p].session_id = sid

\* this step leaves the messages of sid in place and unchanged
Kept(sid) ==
    \A i \in SessionIds(messages, sid) : i \in DOMAIN messages' /\ messages'[i] = messages[i]

\* C8: a step that is not a reset of s leaves every stored message of s in
\* place and unchanged, so a history of s read before the step is a prefix
\* of a history read after it; messages go only by a reset of their session.
C8_AppendOnly ==
    [][\A sid \in Sessions :
          ~Resets(sid)
          => /\ Kept(sid)
             /\ \A h \in OrderedByTimestamp(messages, sid) :
                    \A g \in OrderedByTimestamp(messages', sid) :
                        IsPrefix(Formatted(messages, h), Formatted(messages', g))]_vars

\* a non-empty text as message and one of the ten tags as response_type
WellTyped(d) ==
    /\ IsText(d.message)
    /\ d.message # ""
    /\ d.response_type \in ResponseTypes

\* C9: the response of a successful turn, which is also the structured
\* payload stored with the assistant message, has a non-empty text as
\* message and one of the ten tags as response_type.
C9_ResponseWellTyped ==
    \A p \in Procs :
        (Completed(p, "query") /\ res[p].status = 200)
        => /\ WellTyped(res[p].response)
           /\ res[p].response = loc[p].response_dict

\* a JSON object with a message and without a valid response_type
BadTag(raw) ==
    /\ raw.kind = "object"
    /\ IsText(raw.obj.message)
    /\ raw.obj.response_type \notin ResponseTypes

\* C10: a parsed object with a message and without a valid response_type is
\* accepted, and the response carries its message with response_type
\* general_advice.
C10_BadTagBecomesGeneralAdvice ==
    \A p \in Procs :
        (pc[p] = "q_return" /\ BadTag(loc[p].response_text))
        => /\ loc[p].response_dict.message = loc[p].response_text.obj.message
           /\ loc[p].response_dict.response_type = "general_advice"

\* the collaborator of turn p has answered with raw
Answered(p, raw) == arg[p].op = "query" /\ loc[p].response_text = raw

\* the assistant message of turn p is stored with content and payload d
AssistantStored(p, d) ==
    \E i \in SessionIds(messages, arg[p].session_id) :
        /\ messages[i].role = "assistant"
        /\ messages[i].content = d.message
        /\ messages[i].structured_data = d

\* C11: when the collaborator's raw text is not JSON, the turn goes on: the
\* response is the raw text as message with response_type general_advice
\* and no substructure, the assistant message is stored with it, and the
\* caller receives it with success.
C11_UnparsableTextBecomesGeneralAdvice ==
    \A p \in Procs : \A raw \in RawOutputs :
        (raw.kind = "text" /\ Answered(p, raw))
        => LET d == Dict(raw.text, "general_advice", NullBudget)
           IN /\ pc[p] \in {"q_return", "done"}
              /\ loc[p].response_dict = d
              /\ AssistantStored(p, d)
              /\ pc[p] = "done" => res[p].status = 200 /\ res[p].response = d

\* a turn has returned the words "plain words", which are not JSON, as a
\* general_advice response
C11_Witness ==
    \E p \in Procs :
        /\ Completed(p, "query")
        /\ res[p].status = 200
        /\ loc[p].response_text = RawOther("text", "plain words")
        /\ res[p].response.message = "plain words"
        /\ res[p].response.response_type = "general_advice"
        /\ AssistantStored(p, res[p].response)

\* a JSON object, valid but for a budget_items entry without cost_low
HasBadItem(raw) ==
    /\ raw.kind = "object"
    /\ IsText(raw.obj.message)
    /\ raw.obj.response_type \in ResponseTypes
    /\ \E i \in 1..Len(raw.obj.budget_items.items) :
           ~BudgetItemValid(raw.obj.budget_items.items[i])

\* the entries of a budget_items list that validate, in their order
ValidItems(items) == SelectSeq(items, BudgetItemValid)

\* C12: when a budget_items entry of the parsed response lacks cost_low, the
\* response returned keeps message, response_type and the valid entries and
\* omits the failing entry, and the caller receives it with success.
C12_BadBudgetItemDropped ==
    \A p \in Procs : \A raw \in RawOutputs :
        (HasBadItem(raw) /\ Answered(p, raw))
        => /\ pc[p] \in {"q_return", "done"}
           /\ loc[p].response_dict.message = raw.obj.message
           /\ loc[p].response_dict.response_type = raw.obj.response_type
           /\ loc[p].response_dict.budget_items.items
                  = ValidItems(raw.obj.budget_items.items)
           /\ pc[p] = "done"
                  => res[p].status = 200 /\ res[p].response = loc[p].response_dict

\* C13: whatever text the collaborator returns (JSON that is not an object
\* and objects without a message included), the turn ends with a response
\* that has a message, never with a failure.
C13_ValidationNeverFails ==
    \A p \in Procs : \A raw \in RawOutputs :
        (raw.kind # "none" /\ Answered(p, raw) /\ pc[p] = "done")
        => /\ res[p].status = 200
           /\ IsText(res[p].response.message)

\* a body of POST /api/query without session_id or without a message
LacksInput(a) ==
    /\ a.op = "query"
    /\ a.session_id = NoSid \/ a.message \in {Absent, None, "", "   "}

\* C14: a submit-turn without session_id, or whose message is missing, null,
\* empty or only whitespace, is answered in one step with a client error
\* (400) and changes neither table.
C14_BadRequestChangesNothing ==
    [][\A p \in Procs :
          (pc[p] = "idle" /\ pc'[p] # "idle" /\ LacksInput(arg'[p]))
          => /\ pc'[p] = "done"
             /\ res'[p].status = 400
             /\ messages' = messages
             /\ profiles' = profiles]_vars

\* update p ends in this step
MergeEnds(p) == pc[p] = "u_commit" /\ pc'[p] = "done"

ClientErrors == 400..499

\* C15: an update whose body has a key outside the recognized fields ends
\* with a client error and leaves the profile table as it was.
C15_UnknownFieldRejected ==
    [][\A p \in Procs :
          (MergeEnds(p) /\ ~(DOMAIN arg[p].data \subseteq updatable_fields))
          => /\ res'[p].status \in ClientErrors
             /\ profiles' = profiles]_vars

\* the enumerations of section 3 of the specification
Enumeration(f) ==
    IF f = "location_type" THEN {"urban", "rural", "unknown"}
    ELSE {"full-time", "part-time", "flexible", "unknown"}

EnumFields == {"location_type", "time_commitment"}

BadEnum(data) ==
    \E f \in EnumFields \cap DOMAIN data : data[f] \notin Enumeration(f)

\* C16: an update that sets location_type or time_commitment to a value
\* outside its enumeration ends with a client error and leaves the profile
\* table as it was, and every stored location_type and time_commitment is
\* unset or in its enumeration.
C16_EnumsEnforced ==
    /\ [](\A i \in DOMAIN profiles : \A f \in EnumFields :
              profiles[i].attrs[f] \in {None} \cup Enumeration(f))
    /\ [][\A p \in Procs :
             (MergeEnds(p) /\ BadEnum(arg[p].data))
             => /\ res'[p].status \in ClientErrors
                /\ profiles' = profiles]_vars

\* the payload that turn p hands to the collaborator
PayloadOf(p) == PromptMessages(loc[p].profile, loc[p].history)

\* turn p reads the history of its session in this step (line 420)
ReadsHistory(p) == pc[p] = "q_history" /\ pc'[p] # "q_history"

\* the entry of the user message of turn p
OwnEntry(p) == [role |-> "user", content |-> user_message(arg[p].message)]

\* the user message of turn p is the latest message appended to its session
OwnIsLatest(p) ==
    LET a == appended[arg[p].session_id]
    IN a # <<>> /\ a[Len(a)] = loc[p].user_id

\* C17: the payload of a turn is one system entry followed by the history
\* the turn read; the history it reads is the session's messages in the
\* order they were appended, ending with the turn's own user message when
\* nothing was appended after it (one entry when that is the session's only
\* message); and when the only request so far is a turn that has succeeded,
\* its session holds the user message and then the assistant message, which
\* carries the response_type of the collaborator's answer.
C17_PromptIsProfileThenHistory ==
    /\ [][\A p \in Procs :
             ReadsHistory(p)
             => /\ loc'[p].history = PromptEntries(messages, appended[arg[p].session_id])
                /\ OwnIsLatest(p)
                   => /\ loc'[p].history[Len(loc'[p].history)] = OwnEntry(p)
                      /\ Len(appended[arg[p].session_id]) = 1
                             => Len(loc'[p].history) = 1]_vars
    /\ [](\A p \in Procs :
            LET a == appended[arg[p].session_id]
            IN /\ pc[p] = "q_call"
                  => /\ Head(PayloadOf(p)).role = "system"
                     /\ Tail(PayloadOf(p)) = loc[p].history
               /\ (Completed(p, "query") /\ res[p].status = 200 /\ arrived = 1)
                  => /\ Len(a) = 2
                     /\ PromptEntries(messages, <<a[1]>>) = <<OwnEntry(p)>>
                     /\ messages[a[2]].role = "assistant"
                     /\ messages[a[2]].structured_data.response_type
                            = loc[p].response_text.obj.response_type)

\* turn p takes a step of the assembly of its payload (lines 419-443)
Assembles(p) == pc[p] \in {"q_history", "q_context"} /\ pc'[p] # pc[p]

\* role and content of the rows h, and nothing else
RoleAndContent(h) ==
    [i \in 1..Len(h) |-> [role |-> messages[h[i]].role, content |-> messages[h[i]].content]]

\* no two stored messages of the session have the same timestamp
NoTies(sid) ==
    \A i, j \in SessionIds(messages, sid) :
        i # j => messages[i].timestamp # messages[j].timestamp

C19_GetProfileCreatesRow ==
    [][\A p \in Procs :
          (Serves(p, "get_profile") /\ arg'[p].session_id # NoSid)
          => /\ res'[p].status = 200
             /\ res'[p].profile.present
             /\ SessionIds(profiles, arg'[p].session_id) = {}
                    => res'[p].profile.attrs = DefaultProfile
             /\ Cardinality(SessionIds(profiles', arg'[p].session_id)) = 1]_vars

\* C20: the text of an export is the text that an export of the same stored
\* profile and messages gives at any other reading of the clock.
C20_ExportIgnoresClock ==
    [][\A p \in Procs :
          (Serves(p, "export") /\ res'[p].status = 200)
          => \A now \in 1..MaxClock :
                 \E h \in OrderedByTimestamp(messages, arg'[p].session_id) :
                     res'[p].text
                         = ExportLines(messages, h,
                                       FirstProfile(profiles, arg'[p].session_id), now)]_vars

\* C21: among the messages appended to a session since its last reset, in
\* the order they were appended, every assistant message comes after a
\* user message.
C21_NoOrphanAssistant ==
    \A sid \in Sessions :
        \A k \in 1..Len(appended[sid]) :
            messages[appended[sid][k]].role = "assistant"
            => \E j \in 1..(k - 1) : messages[appended[sid][j]].role = "user"

\* C22: when the only two requests received are turns of one session, and
\* both have been answered, neither was refused the creation of the
\* profile row, both succeeded unless the collaborator failed, and the
\* session has exactly one profile row.
C22_ConcurrentTurnsBothCreate ==
    \A p, q \in Procs :
        ( /\ p # q
          /\ Completed(p, "query") /\ Completed(q, "query")
          /\ arg[p].session_id = arg[q].session_id
          /\ arrived = 2 )
        => /\ res[p].error # "IntegrityError"
           /\ res[p].status = 200 \/ res[p].error = "APIError"
           /\ Cardinality(SessionIds(profiles, arg[p].session_id)) = 1

\* the rows of session t, by primary key
RowsOf(tbl, t) == [i \in SessionIds(tbl, t) |-> tbl[i]]

\* request p, a reset, an update or a turn, takes a step
Acts(p) == pc'[p] # pc[p] /\ arg'[p].op \in {"reset", "update", "query"}

\* C23: a step of a reset, an update or a turn of session s leaves the
\* messages and the profile row of every other session as they were, and
\* a reset of s leaves neither a message nor a profile row of s.
C23_SessionsIsolated ==
    [][\A p \in Procs :
          Acts(p)
          => /\ \A t \in Sessions \ {arg'[p].session_id} :
                    /\ RowsOf(messages', t) = RowsOf(messages, t)
                    /\ RowsOf(profiles', t) = RowsOf(profiles, t)
             /\ (Serves(p, "reset") /\ arg'[p].session_id # NoSid)
                    => /\ SessionIds(messages', arg'[p].session_id) = {}
                       /\ SessionIds(profiles', arg'[p].session_id) = {}]_vars

\* turn p has committed its assistant message (line 483) and has yet to
\* build its answer
StoredAssistant(p) == pc[p] = "q_return"

\* C24: a turn is answered with success exactly when it has stored its
\* assistant message; a turn answered with an error has stored none.
C24_SuccessIffAssistantStored ==
    [][\A p \in Procs :
          (Returns(p) /\ arg'[p].op = "query")
          => (res'[p].status = 200 <=> StoredAssistant(p))]_vars

====
